---- MODULE Spec2Model ----
(***************************************************************************)
(* WebStorage client (src/webstorage/index.js): the presign -> PUT upload  *)
(* of one file, the service calls (delete, storage info, list files) and   *)
(* the batch scheduler uploadMultipleFiles, as a state machine.            *)
(*                                                                         *)
(* JavaScript runs each handler to its next await without interruption:    *)
(* one action is one such run (a public call up to its first await, the    *)
(* continuation after a response arrived, the continuation of the batch    *)
(* loop after its await).  The service, the storage behind the presigned   *)
(* URL, the filesystem and the host are the environment: their answers are *)
(* chosen with \E from small sets.                                         *)
(***************************************************************************)
EXTENDS Integers, Sequences, FiniteSets, TLC

\* ------------------------------------------------------------------ bounds
\* Longest array handed to uploadMultipleFiles.
MaxFiles == 5
\* Most deviations in one call: items of the array that are not the host's
\* regular source, plus requests that the network or the service fails.
MaxDeviations == 1
\* Largest positive maxConcurrent option tried.
MaxConcurrentOption == 2
\* Negative values of the chunk loop's index told apart: an index below
\* -MaxSpin is held as -1.
MaxSpin == 2
\* uploadFile calls made for one source on one client.
MaxAttempts == 2

\* ------------------------------------------------------- program constants
\* options.maxConcurrent || 3
FallbackMaxConcurrent == 3
\* options = { concurrent: true, maxConcurrent: 3 }
DefaultMaxConcurrent == 3

VARIABLES
    host,        \* the globals the module probes when it is loaded
    call,        \* the public operation invoked on the client ("none": not yet)
    files,       \* uploadFile: <<source>>; uploadMultipleFiles: the array
    filesIsArray,\* Array.isArray(files)
    optionsArg,  \* the options argument as the caller passed it
    objectKey,   \* deleteFile's argument
    tasks,       \* one uploadFile invocation per element of files
    svc,         \* the service call of deleteFile / getStorageInfo / listFiles
    branch,      \* uploadMultipleFiles: the branch of the handler taken
    i,           \* uploadMultipleFiles: loop index (0-based, as in the code)
    batch,       \* uploadMultipleFiles: positions of the uploads being awaited
    chunks,      \* history: the non-empty batches launched by the concurrent loop
    results,     \* uploadMultipleFiles: the results array
    ret,         \* the promise the public operation returned
    previous     \* history: the earlier uploadFile invocations for the source

vars == <<host, call, files, filesIsArray, optionsArg, objectKey, tasks, svc,
          branch, i, batch, chunks, results, ret, previous>>

\* ------------------------------------------------------------------- host
\* window: typeof window !== 'undefined'; process: global and process exist;
\* File: the File constructor is a global of the host.
Hosts ==
    { [window |-> FALSE, process |-> TRUE,  File |-> TRUE ],   \* Node.js >= 20
      [window |-> FALSE, process |-> TRUE,  File |-> FALSE],   \* Node.js < 20
      [window |-> TRUE,  process |-> FALSE, File |-> TRUE ],   \* browser
      [window |-> FALSE, process |-> FALSE, File |-> TRUE ] }  \* worker

isNode == ~host.window /\ host.process

isBrowser == host.window

\* ---------------------------------------------------------------- sources
Names == <<"f1", "f2", "f3", "f4", "f5", "f6", "f7">>

\* Sizes in GiB.
Sizes == {1, 6}

\* kind: "path" a string, "file" a File object, "other" any other object or
\* number, "null" null or undefined.  fs: what the filesystem holds at the
\* path: "ok", "missing", or "vanishes" (there for existsSync, gone for
\* statSync).
Item(kind, fs, size, p) ==
    [kind |-> kind, fs |-> fs, size |-> size, name |-> Names[p]]

NoSource == [kind |-> "", fs |-> "", size |-> 0, name |-> ""]

PathOk(p) == Item("path", "ok", 1, p)

FileOk(p) == Item("file", "na", 1, p)

ItemsAt(p) ==
    { PathOk(p), Item("path", "missing", 1, p), Item("path", "vanishes", 1, p),
      FileOk(p), Item("other", "na", 1, p), Item("null", "na", 1, p) }

SingleItems ==
    ItemsAt(1) \cup { Item("path", "ok", 6, 1), Item("file", "na", 6, 1) }

\* -------------------------------------------------------------- envelopes
\* {success, message, status, data}; an absent message is <<>>, an absent
\* status 0, an absent data (or data.url, data.key) <<>>.  A message is the
\* sequence of the parts of its template string.
NoData == [url |-> <<>>, key |-> <<>>]

Envelope(success, message, status, data) ==
    [success |-> success, message |-> message, status |-> status, data |-> data]

Failure(message) == Envelope(FALSE, message, 0, NoData)

NoEnvelope == Envelope(FALSE, <<>>, 0, NoData)

\* a || b on strings
OrElse(a, b) == IF a # "" THEN a ELSE b

\* ------------------------------------------------------ service and network
HttpErrorBodies ==
    { [message |-> "quota exceeded", detail |-> ""],
      [message |-> "", detail |-> "not allowed"],
      [message |-> "", detail |-> ""] }

\* json: the body of the response parses as JSON.
Ok(data) == [kind |-> "ok", status |-> 200, body |-> [message |-> "", detail |-> ""],
             data |-> data, cause |-> "", statusText |-> "OK", json |-> TRUE]

\* A success response with an empty body (204 No Content, or 200 without one).
OkNoBody == [Ok(NoData) EXCEPT !.json = FALSE]

HttpError(body) == [kind |-> "http", status |-> 403, body |-> body,
                    data |-> NoData, cause |-> "", statusText |-> "Forbidden",
                    json |-> body # [message |-> "", detail |-> ""]]

NoResponse == [kind |-> "none", status |-> 0, body |-> [message |-> "", detail |-> ""],
               data |-> NoData, cause |-> "ECONNRESET", statusText |-> "", json |-> FALSE]

NotYet == [kind |-> "", status |-> 0, body |-> [message |-> "", detail |-> ""],
           data |-> NoData, cause |-> "", statusText |-> "", json |-> FALSE]

\* The signature of the upload URLs the service issues changes from one
\* uploadFile call of the client to the next.
Signatures == <<"sig-1", "sig-2", "sig-3", "sig-4">>

\* What the presign endpoint grants for a file name: {url, key}.
Grant(name) ==
    [url |-> <<"https://bucket/", name, "?", Signatures[Len(previous) + 1]>>,
     key |-> <<"objects/", name>>]

PresignResponses(name) ==
    {Ok(Grant(name)), NoResponse} \cup {HttpError(b) : b \in HttpErrorBodies}

PutResponses == {Ok(NoData), HttpError([message |-> "", detail |-> ""]), NoResponse}

ServiceResponses ==
    {Ok(NoData), OkNoBody, NoResponse} \cup {HttpError(b) : b \in HttpErrorBodies}

StatusStr(status) == IF status = 403 THEN "403" ELSE "200"

\* ----------------------------------------------------------------- client
\* new WebStorage({ apiKey, storageName }): the values the client was built with.
apiKey == "key-1"

storageName == "photos"

\* {Authorization, Storage, Content-Type}; an absent header is <<>> or "".
NoHeaders == [Authorization |-> <<>>, Storage |-> <<>>, ContentType |-> ""]

\* Faulty variant: the Storage header is left out.
_getServiceHeadersNoStorage ==
    [Authorization |-> <<"ApiKey ", apiKey>>, Storage |-> <<>>,
     ContentType |-> "application/json"]

_getServiceHeaders ==
    [Authorization |-> <<"ApiKey ", apiKey>>, Storage |-> <<"Storage ", storageName>>,
     ContentType |-> "application/json"]

\* mime.lookup(filePath) || 'application/octet-stream', file.type ||
\* _getBrowserMimeType(file.name): the names used here have no extension.
fileType(source) == "application/octet-stream"

\* A request as it leaves the client: method, URL, headers and, for DELETE,
\* the payload {key}.
NoRequest == [method |-> "", url |-> <<>>, headers |-> NoHeaders, data |-> [key |-> <<>>]]

\* axios({baseURL, ...config, headers: {...this._getServiceHeaders(), ...config.headers}})
ServiceRequest(method, url, data) ==
    [method |-> method, url |-> url, headers |-> _getServiceHeaders, data |-> data]

\* Faulty variant: the upload URL of an earlier call for the source is kept
\* and used again.
PutRequestCached(uploadUrl, source) ==
    [method |-> "PUT",
     url |-> IF previous # <<>> /\ previous[1].presignResult.success
               THEN previous[1].presignResult.data.url
               ELSE uploadUrl,
     headers |-> [NoHeaders EXCEPT !.ContentType = fileType(source)],
     data |-> [key |-> <<>>]]

\* axios.put(uploadUrl, fileStream, {headers}) and fetch(uploadUrl, {method:
\* 'PUT', body, headers}): only the content headers.
PutRequest(uploadUrl, source) ==
    [method |-> "PUT", url |-> uploadUrl,
     headers |-> [NoHeaders EXCEPT !.ContentType = fileType(source)],
     data |-> [key |-> <<>>]]

\* -------------------------------------------------------------- transport
\* Faulty variant: an HTTP error whose body carries neither field gets no text.
_requestToServiceNoFallback(response) ==
    IF response.kind = "ok"
      THEN Envelope(TRUE, <<>>, 0, response.data)
    ELSE IF response.kind = "http"
      THEN Envelope(FALSE, <<OrElse(response.body.message, response.body.detail)>>,
                    response.status, NoData)
    ELSE Failure(<<"Koneksi ke server gagal: ", response.cause>>)

\* _requestToService: the outcome of the axios request as an envelope.
_requestToService(response) ==
    IF response.kind = "ok"
      THEN Envelope(TRUE, <<>>, 0, response.data)
    ELSE IF response.kind = "http"
      THEN Envelope(FALSE,
                    <<OrElse(response.body.message,
                             OrElse(response.body.detail, "Terjadi kesalahan HTTP."))>>,
                    response.status, NoData)
    ELSE Failure(<<"Koneksi ke server gagal: ", response.cause>>)

\* _requestToServiceBrowser: the outcome of the fetch request as an envelope.
\* response.json() rejects on a body that is not JSON; on the error path the
\* rejection is replaced by {}, on the success path it reaches the catch.
_requestToServiceBrowser(response) ==
    IF response.kind = "none"
      THEN Failure(<<"Koneksi ke server gagal: ", response.cause>>)
    ELSE IF response.kind # "ok"
      THEN LET errorData == IF response.json THEN response.body
                                             ELSE [message |-> "", detail |-> ""]
           IN  Envelope(FALSE,
                        <<OrElse(errorData.message,
                                 OrElse(errorData.detail, "Terjadi kesalahan HTTP."))>>,
                        response.status, NoData)
    ELSE IF ~response.json
      THEN Failure(<<"Koneksi ke server gagal: ", "Unexpected end of JSON input">>)
    ELSE Envelope(TRUE, <<>>, 0, response.data)

\* ------------------------------------------------- one uploadFile invocation
\* pc: "idle" not invoked, "presign" awaiting the POST to /cdn/upload-url/,
\* "put" awaiting the PUT to the upload URL, "done" settled.
\* posts, puts: requests issued.  presignResponse, putResponse: what the
\* network answered.  out: how the promise settled.
NewTask ==
    [pc |-> "idle", adapter |-> "none", posts |-> 0, puts |-> 0, putUrl |-> <<>>,
     source |-> NoSource, post |-> NoRequest, put |-> NoRequest,
     presignResponse |-> NotYet, presignResult |-> NoEnvelope, putResponse |-> NotYet,
     out |-> "none", env |-> NoEnvelope, error |-> "",
     caught |-> FALSE, fallbacks |-> 0]

Returned(task, envelope) ==
    [task EXCEPT !.pc = "done", !.out = "returned", !.env = envelope]

Raised(task, error) ==
    [task EXCEPT !.pc = "done", !.out = "raised", !.error = error]

\* _uploadFileNode up to its first await.
_uploadFileNode(task, filePath) ==
    IF filePath.fs = "missing"
      THEN Returned(task, Failure(<<"File tidak ditemukan: ", filePath.name>>))
    ELSE IF filePath.fs = "vanishes"
      THEN Raised(task, "ENOENT: no such file or directory, stat")
    ELSE [task EXCEPT !.pc = "presign", !.adapter = "node", !.posts = @ + 1,
                      !.source = filePath,
                      !.post = ServiceRequest("POST", <<"/cdn/upload-url/">>, NoRequest.data)]

\* _uploadFileBrowser up to its first await.
_uploadFileBrowser(task, file) ==
    [task EXCEPT !.pc = "presign", !.adapter = "browser", !.posts = @ + 1,
                 !.source = file,
                 !.post = ServiceRequest("POST", <<"/cdn/upload-url/">>, NoRequest.data)]

\* uploadFile: the dispatch on host and argument type.
uploadFile(task, filePathOrFile) ==
    IF isNode /\ filePathOrFile.kind = "path"
      THEN _uploadFileNode(task, filePathOrFile)
    ELSE IF isBrowser /\ filePathOrFile.kind = "file"
      THEN _uploadFileBrowser(task, filePathOrFile)
    ELSE IF filePathOrFile.kind = "path"
      THEN Returned(task,
             Failure(<<"File path tidak didukung di browser. Gunakan File object.">>))
    ELSE IF ~isBrowser /\ ~host.File
      THEN Raised(task, "File is not defined")
    ELSE IF filePathOrFile.kind = "file"
      THEN _uploadFileBrowser(task, filePathOrFile)
    ELSE Returned(task,
           Failure(<<"Parameter tidak valid. Gunakan file path (Node.js) atau File object (Browser).">>))

\* Faulty variant: the check of presignResult.success is missing.
AfterPresignUnchecked(task, presignResult) ==
    [task EXCEPT !.presignResult = presignResult, !.pc = "put",
                 !.puts = @ + 1, !.putUrl = presignResult.data.url,
                 !.put = PutRequest(presignResult.data.url, task.source)]

\* Both adapters after the presign call returned.
AfterPresign(task, presignResult) ==
    IF ~presignResult.success
      THEN Returned([task EXCEPT !.presignResult = presignResult], presignResult)
      ELSE [task EXCEPT !.presignResult = presignResult, !.pc = "put",
                        !.puts = @ + 1, !.putUrl = presignResult.data.url,
                        !.put = PutRequest(presignResult.data.url, task.source)]

\* Faulty variant: the upload URL is handed back in place of the key.
UploadSucceededWithUrl(task) ==
    Envelope(TRUE, <<"File berhasil diunggah.">>, 0,
             [url |-> <<>>, key |-> task.presignResult.data.url])

UploadSucceeded(task) ==
    Envelope(TRUE, <<"File berhasil diunggah.">>, 0,
             [url |-> <<>>, key |-> task.presignResult.data.key])

\* _uploadFileNode after axios.put settled.
AfterPutNode(task, response) ==
    IF response.kind = "ok"
      THEN Returned(task, UploadSucceeded(task))
    ELSE IF response.kind = "http"
      THEN Returned(task, Failure(<<"Gagal mengunggah ke storage: ",
                                    StatusStr(response.status), " - ", response.statusText>>))
    ELSE Returned(task, Failure(<<"Koneksi ke storage gagal: ", response.cause>>))

\* Faulty variant: the check of uploadResponse.ok is missing.
AfterPutBrowserUnchecked(task, response) ==
    IF response.kind = "none"
      THEN Returned(task, Failure(<<"Koneksi ke storage gagal: ", response.cause>>))
      ELSE Returned(task, UploadSucceeded(task))

\* _uploadFileBrowser after fetch settled.
AfterPutBrowser(task, response) ==
    IF response.kind = "none"
      THEN Returned(task, Failure(<<"Koneksi ke storage gagal: ", response.cause>>))
    ELSE IF response.kind # "ok"
      THEN Returned(task, Failure(<<"Gagal mengunggah ke storage: ",
                                    StatusStr(response.status), " - ", response.statusText>>))
    ELSE Returned(task, UploadSucceeded(task))

AfterPut(task, response) ==
    IF task.adapter = "node"
      THEN AfterPutNode(task, response)
      ELSE AfterPutBrowser(task, response)

\* ------------------------------------------------------------ the promise
Pending == [state |-> "pending", env |-> NoEnvelope, error |-> ""]

Resolved(envelope) == [state |-> "resolved", env |-> envelope, error |-> ""]

Rejected(error) == [state |-> "rejected", env |-> NoEnvelope, error |-> error]

\* The promise of an uploadFile call follows its invocation.
PromiseOf(task) ==
    IF task.out = "returned" THEN Resolved(task.env)
    ELSE IF task.out = "raised" THEN Rejected(task.error)
    ELSE Pending

Settled(task) == task.out # "none"

InFlight(task) == task.pc \in {"presign", "put"}

PresignFailed(task) == task.presignResponse.kind \in {"http", "none"}

PutFailed(task) == task.putResponse.kind \in {"http", "none"}

Faults == Cardinality({t \in DOMAIN tasks : PresignFailed(tasks[t]) \/ PutFailed(tasks[t])})

\* The source a host normally uploads: a path under Node.js, a File elsewhere.
Regular(p) == IF isNode THEN PathOk(p) ELSE FileOk(p)

Odd(fs) == Cardinality({p \in DOMAIN fs : fs[p] # Regular(p)})

Deviations == Faults + (IF call = "uploadMultipleFiles" THEN Odd(files) ELSE 0)

\* caught: the catch clause around the service call was entered; fallbacks:
\* requests sent through _requestToServiceBrowser.
NoService ==
    [pc |-> "none", request |-> NoRequest, sent |-> 0, response |-> NotYet,
     caught |-> FALSE, fallbacks |-> 0]

\* Faulty variant: an error without a response is thrown again.
primaryRethrows(response) ==
    IF response.kind = "none"
      THEN Rejected(response.cause)
      ELSE Resolved(_requestToService(response))

\* The promise of this._requestToService(config): both paths of its catch
\* clause return an envelope.
primary(response) == Resolved(_requestToService(response))

\* The presign call of an adapter once the primary transport has settled:
\* _uploadFileNode awaits it bare, _uploadFileBrowser inside try/catch with the
\* fetch transport in the catch clause (answered by fallbackResponse).
presignCall(task, response, fallbackResponse) ==
    IF primary(response).state = "resolved"
      THEN AfterPresign([task EXCEPT !.presignResponse = response], primary(response).env)
    ELSE IF task.adapter = "browser"
      THEN AfterPresign([task EXCEPT !.presignResponse = fallbackResponse,
                                     !.caught = TRUE, !.fallbacks = @ + 1],
                        _requestToServiceBrowser(fallbackResponse))
    ELSE Raised([task EXCEPT !.presignResponse = response], primary(response).error)

\* deleteFile, getStorageInfo and listFiles once the primary transport has
\* settled: try { return await this._requestToService(...) } catch (error)
\* { if (isBrowser) return await this._requestToServiceBrowser(...); throw error }
serviceCall(service, response, fallbackResponse) ==
    IF primary(response).state = "resolved"
      THEN [svc |-> [service EXCEPT !.pc = "done", !.response = response],
            ret |-> primary(response)]
    ELSE IF isBrowser
      THEN [svc |-> [service EXCEPT !.pc = "done", !.response = fallbackResponse,
                                    !.caught = TRUE, !.fallbacks = @ + 1],
            ret |-> Resolved(_requestToServiceBrowser(fallbackResponse))]
    ELSE [svc |-> [service EXCEPT !.pc = "done", !.response = response, !.caught = TRUE],
          ret |-> Rejected(primary(response).error)]

NoPromise == [state |-> "none", env |-> NoEnvelope, error |-> ""]

\* ------------------------------------------------------ uploadMultipleFiles
\* The options argument: given is FALSE when the caller passed none;
\* concurrent is "absent", "true" or "false"; hasMax says whether
\* maxConcurrent is a property of the object.
Omitted == [given |-> FALSE, concurrent |-> "absent", hasMax |-> FALSE, maxConcurrent |-> 0]

Given(concurrent, hasMax, m) ==
    [given |-> TRUE, concurrent |-> concurrent, hasMax |-> hasMax, maxConcurrent |-> m]

OptionShapes ==
    {Omitted}
      \cup {Given("true", TRUE, m) : m \in (-1)..MaxConcurrentOption}
      \cup {Given(c, FALSE, 0) : c \in {"absent", "true", "false"}}
      \cup {Given(c, TRUE, MaxConcurrentOption) : c \in {"absent", "false"}}

\* options = { concurrent: true, maxConcurrent: 3 }: the default parameter value.
options(arg) ==
    IF arg.given THEN arg ELSE Given("true", TRUE, DefaultMaxConcurrent)

\* if (options.concurrent)
concurrent(arg) == options(arg).concurrent = "true"

\* const maxConcurrent = options.maxConcurrent || 3
maxConcurrent(arg) ==
    IF options(arg).hasMax /\ options(arg).maxConcurrent # 0
      THEN options(arg).maxConcurrent
      ELSE FallbackMaxConcurrent

\* Array.prototype.slice(start, end) on an array of length n: the positions
\* (1-based) of the elements it returns, in order.
RelativeIndex(k, n) ==
    IF k < 0 THEN (IF n + k > 0 THEN n + k ELSE 0) ELSE (IF k < n THEN k ELSE n)

\* Faulty variant: end taken as the last position included.
sliceInclusive(start, end, n) ==
    LET from == RelativeIndex(start, n)
        to == RelativeIndex(end + 1, n)
    IN  IF to > from THEN [j \in 1..(to - from) |-> from + j] ELSE <<>>

slice(start, end, n) ==
    LET from == RelativeIndex(start, n)
        to == RelativeIndex(end, n)
    IN  IF to > from THEN [j \in 1..(to - from) |-> from + j] ELSE <<>>

Range(seq) == {seq[j] : j \in DOMAIN seq}

\* typeof file === 'string' ? file : file.name; "undefined" when the value
\* has no name property.  Reading the name of null raises.
fileName(file) ==
    IF file.kind \in {"path", "file"} THEN file.name ELSE "undefined"

NameRaises(file) == file.kind = "null"

WithFileName(envelope, name) ==
    [success |-> envelope.success, message |-> envelope.message,
     status |-> envelope.status, data |-> envelope.data, fileName |-> name]

\* The entry the batch makes of one settled uploadFile invocation.
Entry(task, file) ==
    IF task.out = "returned"
      THEN WithFileName(task.env, fileName(file))
      ELSE WithFileName(Failure(<<task.error>>), fileName(file))

\* The callbacks of batch.map (or one iteration of the sequential loop) up to
\* their first await: every item whose name can be read has uploadFile invoked.
Launch(ts, b, fs) ==
    [p \in DOMAIN ts |->
        IF p \in Range(b) /\ ~NameRaises(fs[p]) THEN uploadFile(ts[p], fs[p]) ELSE ts[p]]

\* A callback that raised before its try block rejects its promise, and the
\* awaiting loop with it.
LaunchRaises(b, fs) == \E p \in Range(b) : NameRaises(fs[p])

AfterLaunch(b, fs) ==
    IF LaunchRaises(b, fs)
      THEN Rejected("Cannot read properties of null (reading 'name')")
      ELSE Pending

\* Faulty variant: Promise.race in place of Promise.all.
AnySettled(ts, b) == \E p \in Range(b) : Settled(ts[p])

\* Faulty variant: the await is missing.
NotAwaited(ts, b) == TRUE

\* await Promise.all(batchPromises) / await this.uploadFile(file)
AllSettled(ts, b) == \A p \in Range(b) : Settled(ts[p])

\* Faulty variant: results.unshift in place of results.push.
PushedFront(res, ts, b, fs) == [j \in DOMAIN b |-> Entry(ts[b[j]], fs[b[j]])] \o res

\* results.push(...batchResults)
Pushed(res, ts, b, fs) == res \o [j \in DOMAIN b |-> Entry(ts[b[j]], fs[b[j]])]

\* ------------------------------------------------------------ the inputs
ItemKinds ==
    <<"pathok", "missing", "vanishes", "file", "other", "null">>

ItemOf(k, p) ==
    IF k = 1 THEN PathOk(p)
    ELSE IF k = 2 THEN Item("path", "missing", 1, p)
    ELSE IF k = 3 THEN Item("path", "vanishes", 1, p)
    ELSE IF k = 4 THEN FileOk(p)
    ELSE IF k = 5 THEN Item("other", "na", 1, p)
    ELSE Item("null", "na", 1, p)

\* The arrays of n items, at most MaxDeviations of them not the host's
\* regular source.
Arrays(n) ==
    LET all == {[p \in 1..n |-> ItemOf(kf[p], p)] : kf \in [1..n -> DOMAIN ItemKinds]}
    IN  {fs \in all : Odd(fs) <= MaxDeviations}

ObjectKeys == {<<>>, Grant(Names[1]).key}

ListOptions == {[limit |-> l, prefix |-> x] : l \in {0, 10}, x \in {"", "img"}}

\* URLSearchParams: limit and prefix are appended when truthy.
queryParams(opts) ==
    (IF opts.limit # 0 THEN <<"limit=10">> ELSE <<>>)
      \o (IF opts.prefix # "" THEN <<"prefix=", opts.prefix>> ELSE <<>>)

\* ------------------------------------------------------------------- Init
Init ==
    /\ host \in Hosts
    /\ call = "none"
    /\ files = <<>>
    /\ filesIsArray = TRUE
    /\ optionsArg = Omitted
    /\ objectKey = <<>>
    /\ tasks = <<>>
    /\ svc = NoService
    /\ branch = "none"
    /\ i = 0
    /\ batch = <<>>
    /\ chunks = <<>>
    /\ results = <<>>
    /\ ret = NoPromise
    /\ previous = <<>>

\* ------------------------------------------------------------ uploadFile
UploadFile ==
    /\ call = "none"
    /\ \E filePathOrFile \in SingleItems :
          /\ files' = <<filePathOrFile>>
          /\ tasks' = <<uploadFile(NewTask, filePathOrFile)>>
    /\ call' = "uploadFile"
    /\ ret' = PromiseOf(tasks'[1])
    /\ UNCHANGED <<host, previous, filesIsArray, optionsArg, objectKey, svc, branch, i, batch,
                   chunks, results>>

\* uploadFile called once more for the same source after the earlier call
\* returned.
UploadFileAgain ==
    /\ call = "uploadFile"
    /\ ret.state = "resolved"
    /\ Len(previous) + 1 < MaxAttempts
    /\ previous' = Append(previous, tasks[1])
    /\ tasks' = <<uploadFile(NewTask, files[1])>>
    /\ ret' = PromiseOf(tasks'[1])
    /\ UNCHANGED <<host, call, files, filesIsArray, optionsArg, objectKey, svc, branch,
                   i, batch, chunks, results>>

\* The presign call of invocation t returned.
PresignSettle ==
    /\ \E t \in DOMAIN tasks :
          /\ tasks[t].pc = "presign"
          /\ \E response \in PresignResponses(files[t].name) :
                /\ response.kind # "ok" => Deviations < MaxDeviations
                /\ IF primary(response).state = "resolved"
                     THEN tasks' = [tasks EXCEPT ![t] = presignCall(@, response, response)]
                     ELSE \E fallbackResponse \in PresignResponses(files[t].name) :
                            tasks' = [tasks EXCEPT ![t] =
                                        presignCall(@, response, fallbackResponse)]
    /\ ret' = IF call = "uploadFile" THEN PromiseOf(tasks'[1]) ELSE ret
    /\ UNCHANGED <<host, previous, call, files, filesIsArray, optionsArg, objectKey, svc, branch,
                   i, batch, chunks, results>>

\* The PUT of invocation t settled.
PutSettle ==
    /\ \E t \in DOMAIN tasks :
          /\ tasks[t].pc = "put"
          /\ \E response \in PutResponses :
                /\ response.kind # "ok" => Deviations < MaxDeviations
                /\ tasks' = [tasks EXCEPT ![t] =
                               AfterPut([@ EXCEPT !.putResponse = response], response)]
    /\ ret' = IF call = "uploadFile" THEN PromiseOf(tasks'[1]) ELSE ret
    /\ UNCHANGED <<host, previous, call, files, filesIsArray, optionsArg, objectKey, svc, branch,
                   i, batch, chunks, results>>

\* ------------------------------------- deleteFile, getStorageInfo, listFiles
Request(method, url, data) ==
    [pc |-> "sent", request |-> ServiceRequest(method, url, data), sent |-> 1,
     response |-> NotYet, caught |-> FALSE, fallbacks |-> 0]

\* Faulty variant: the key is not checked.
anyObjectKey(key) == FALSE

\* !objectKey
noObjectKey(key) == key = <<>>

\* deleteFile up to its first await.
deleteFile(key) ==
    /\ call' = "deleteFile"
    /\ objectKey' = key
    /\ IF noObjectKey(key)
         THEN /\ ret' = Resolved(Failure(<<"Object key diperlukan.">>))
              /\ svc' = svc
         ELSE /\ ret' = Pending
              /\ svc' = Request("DELETE", <<"/cdn/delete-object/">>, [key |-> key])
    /\ UNCHANGED <<host, previous, files, filesIsArray, optionsArg, tasks, branch, i, batch,
                   chunks, results>>

DeleteFile ==
    /\ call = "none"
    /\ \E key \in ObjectKeys : deleteFile(key)

\* The caller deletes what it has just uploaded:
\* if (uploadResult.success) client.deleteFile(uploadResult.data.key).
DeleteUploaded ==
    /\ call = "uploadFile"
    /\ ret.state = "resolved"
    /\ ret.env.success
    /\ deleteFile(ret.env.data.key)

GetStorageInfo ==
    /\ call = "none"
    /\ call' = "getStorageInfo"
    /\ ret' = Pending
    /\ svc' = Request("GET", <<"/cdn/storages/", storageName, "/">>, NoRequest.data)
    /\ UNCHANGED <<host, previous, files, filesIsArray, optionsArg, objectKey, tasks, branch, i,
                   batch, chunks, results>>

ListFiles ==
    /\ call = "none"
    /\ call' = "listFiles"
    /\ ret' = Pending
    /\ \E opts \in ListOptions :
          svc' = Request("GET", <<"/cdn/storages/", storageName, "/files/?">>
                                   \o queryParams(opts), NoRequest.data)
    /\ UNCHANGED <<host, previous, files, filesIsArray, optionsArg, objectKey, tasks, branch, i,
                   batch, chunks, results>>

\* The service call of deleteFile, getStorageInfo or listFiles returned.
ServiceSettle ==
    /\ svc.pc = "sent"
    /\ \E response \in ServiceResponses :
          IF primary(response).state = "resolved"
            THEN /\ svc' = serviceCall(svc, response, response).svc
                 /\ ret' = serviceCall(svc, response, response).ret
            ELSE \E fallbackResponse \in ServiceResponses :
                   /\ svc' = serviceCall(svc, response, fallbackResponse).svc
                   /\ ret' = serviceCall(svc, response, fallbackResponse).ret
    /\ UNCHANGED <<host, previous, call, files, filesIsArray, optionsArg, objectKey, tasks, branch,
                   i, batch, chunks, results>>

\* ----------------------------------------------------- uploadMultipleFiles
IdleTasks(n) == [p \in 1..n |-> NewTask]

\* Faulty variant: the test of files.length is missing.
notAnArray(fs, isArray) == ~isArray

\* !Array.isArray(files) || files.length === 0
noFiles(fs, isArray) == ~isArray \/ Len(fs) = 0

\* The chunk history after batch b was launched.
Recorded(history, b) == IF b = <<>> THEN history ELSE Append(history, b)

\* The loop index as the model holds it.  The index is negative only when
\* maxConcurrent is, and then every later iteration slices an empty batch and
\* awaits nothing whatever the index is: all indices below -MaxSpin are held
\* as -1.
Held(index) == IF index < -MaxSpin THEN -1 ELSE index

uploadMultipleFiles(fs, isArray, arg) ==
    /\ call' = "uploadMultipleFiles"
    /\ files' = fs
    /\ filesIsArray' = isArray
    /\ optionsArg' = arg
    /\ i' = 0
    /\ IF noFiles(fs, isArray)
         THEN /\ branch' = "early"
              /\ results' = <<WithFileName(
                                Failure(<<"Array file diperlukan dan tidak boleh kosong.">>), "")>>
              /\ ret' = Resolved(NoEnvelope)
              /\ tasks' = <<>>
              /\ batch' = <<>>
              /\ chunks' = <<>>
       ELSE IF concurrent(arg)
         THEN LET b == slice(0, 0 + maxConcurrent(arg), Len(fs))
              IN  /\ branch' = "concurrent"
                  /\ results' = <<>>
                  /\ batch' = b
                  /\ chunks' = Recorded(<<>>, b)
                  /\ tasks' = Launch(IdleTasks(Len(fs)), b, fs)
                  /\ ret' = AfterLaunch(b, fs)
       ELSE /\ branch' = "sequential"
            /\ results' = <<>>
            /\ batch' = <<1>>
            /\ chunks' = <<>>
            /\ tasks' = Launch(IdleTasks(Len(fs)), <<1>>, fs)
            /\ ret' = AfterLaunch(<<1>>, fs)
    /\ UNCHANGED <<host, previous, objectKey, svc>>

\* The concurrent loop after await Promise.all(batchPromises).
ResumeConcurrent ==
    /\ call = "uploadMultipleFiles"
    /\ branch = "concurrent"
    /\ ret.state = "pending"
    /\ AllSettled(tasks, batch)
    /\ LET next == i + maxConcurrent(optionsArg)
           b == slice(next, next + maxConcurrent(optionsArg), Len(files))
       IN  /\ results' = Pushed(results, tasks, batch, files)
           /\ i' = Held(next)
           /\ IF next < Len(files)
                THEN /\ batch' = b
                     /\ chunks' = Recorded(chunks, b)
                     /\ tasks' = Launch(tasks, b, files)
                     /\ ret' = AfterLaunch(b, files)
                ELSE /\ batch' = <<>>
                     /\ chunks' = chunks
                     /\ tasks' = tasks
                     /\ ret' = Resolved(NoEnvelope)
    /\ UNCHANGED <<host, previous, call, files, filesIsArray, optionsArg, objectKey, svc, branch>>

\* The sequential loop after await this.uploadFile(file).
ResumeSequential ==
    /\ call = "uploadMultipleFiles"
    /\ branch = "sequential"
    /\ ret.state = "pending"
    /\ AllSettled(tasks, batch)
    /\ LET next == i + 1
       IN  /\ results' = Pushed(results, tasks, batch, files)
           /\ i' = next
           /\ IF next < Len(files)
                THEN /\ batch' = <<next + 1>>
                     /\ tasks' = Launch(tasks, <<next + 1>>, files)
                     /\ ret' = AfterLaunch(<<next + 1>>, files)
                ELSE /\ batch' = <<>>
                     /\ tasks' = tasks
                     /\ ret' = Resolved(NoEnvelope)
    /\ UNCHANGED <<host, previous, call, files, filesIsArray, optionsArg, objectKey, svc, branch,
                   chunks>>

UploadMultipleFiles ==
    /\ call = "none"
    /\ \/ \E n \in 1..MaxFiles : \E fs \in Arrays(n) : \E arg \in OptionShapes :
             uploadMultipleFiles(fs, TRUE, arg)
       \/ \E isArray \in BOOLEAN : \E arg \in OptionShapes :
             uploadMultipleFiles(<<>>, isArray, arg)

Next ==
    \/ UploadFile
    \/ UploadFileAgain
    \/ DeleteUploaded
    \/ PresignSettle
    \/ PutSettle
    \/ DeleteFile
    \/ GetStorageInfo
    \/ ListFiles
    \/ ServiceSettle
    \/ UploadMultipleFiles
    \/ ResumeConcurrent
    \/ ResumeSequential

Spec == Init /\ [][Next]_vars

\* The event loop runs every continuation that is ready, and every request
\* sent is answered or fails.
FairSpec ==
    /\ Spec
    /\ WF_vars(PresignSettle)
    /\ WF_vars(PutSettle)
    /\ WF_vars(ServiceSettle)
    /\ WF_vars(ResumeConcurrent)
    /\ WF_vars(ResumeSequential)

\* ================================================================== claims

\* C1: in uploadFile, in either adapter, once the presign POST came back as a
\* failure (an HTTP error or no response) the invocation has issued no PUT,
\* is settled, and the envelope it returned is the envelope the transport
\* made of that presign failure, unchanged; a direct uploadFile call resolves
\* to that same envelope.
C1_PresignFailureShortCircuits ==
    \A t \in DOMAIN tasks :
        tasks[t].presignResponse.kind \in {"http", "none"} =>
            /\ tasks[t].puts = 0
            /\ tasks[t].putUrl = <<>>
            /\ tasks[t].pc = "done"
            /\ tasks[t].out = "returned"
            /\ tasks[t].env = _requestToService(tasks[t].presignResponse)
            /\ ~tasks[t].env.success
            /\ (call = "uploadFile" =>
                  ret = Resolved(_requestToService(tasks[t].presignResponse)))

C1_Witness ==
    /\ call = "uploadFile"
    /\ tasks[1].adapter = "node"
    /\ tasks[1].presignResponse.kind = "http"
    /\ ret.state = "resolved"
    /\ ret.env.status = 403

\* C2: an uploadFile invocation returns success=true only if its presign
\* succeeded and its one PUT, to the URL that presign returned, was answered
\* without error; data.key of that envelope is populated and is the key of
\* that invocation's presign response.
C2_SuccessOnlyAfterPut ==
    \A t \in DOMAIN tasks :
        (tasks[t].out = "returned" /\ tasks[t].env.success) =>
            /\ tasks[t].presignResponse.kind = "ok"
            /\ tasks[t].posts = 1
            /\ tasks[t].puts = 1
            /\ tasks[t].putUrl = tasks[t].presignResponse.data.url
            /\ tasks[t].putResponse.kind = "ok"
            /\ tasks[t].env.data.key # <<>>
            /\ tasks[t].env.data.key = tasks[t].presignResponse.data.key
            /\ tasks[t].env.data.key = Grant(files[t].name).key
            /\ (call = "uploadFile" => ret = Resolved(tasks[t].env))

C2_Witness ==
    /\ call = "uploadFile"
    /\ tasks[1].adapter = "browser"
    /\ ret.state = "resolved"
    /\ ret.env.success
    /\ ret.env.data.key = Grant(files[1].name).key

Scheduling == call = "uploadMultipleFiles" /\ branch \in {"concurrent", "sequential"}

Uploading == {p \in DOMAIN tasks : InFlight(tasks[p])}

\* C3: uploadMultipleFiles on an array of sources (path strings and File
\* objects) is never rejected, and when it returns, in either mode, the array
\* has one entry per source; entry p is what the upload of source p settled with
\* (its envelope, or a failure carrying the error it raised), whatever the
\* order in which the uploads settled, and carries the name of source p (the
\* path string as given, or the File's name).
C3_ResultsFollowInputOrder ==
    /\ (Scheduling /\ \A p \in DOMAIN files : files[p].kind \in {"path", "file"})
          => ret.state # "rejected"
    /\ (Scheduling /\ ret.state = "resolved") =>
        /\ Len(results) = Len(files)
        /\ \A p \in DOMAIN files :
              /\ files[p].kind \in {"path", "file"} => results[p].fileName = files[p].name
              /\ tasks[p].out # "none"
              /\ tasks[p].out = "returned" =>
                    /\ results[p].success = tasks[p].env.success
                    /\ results[p].message = tasks[p].env.message
                    /\ results[p].status = tasks[p].env.status
                    /\ results[p].data = tasks[p].env.data
              /\ tasks[p].out = "raised" =>
                    /\ ~results[p].success
                    /\ results[p].message = <<tasks[p].error>>
              /\ results[p].success => results[p].data.key = Grant(files[p].name).key

C3_Witness ==
    /\ Scheduling
    /\ branch = "concurrent"
    /\ ret.state = "resolved"
    /\ Len(files) >= 4
    /\ Len(chunks) >= 2
    /\ results[1].success
    /\ ~results[2].success
    /\ results[3].success

ChunkOf(p) == (p - 1) \div maxConcurrent(optionsArg)

\* C4: in concurrent mode with a chunk size of at least 1, an upload of a
\* later chunk has been started only if every upload of every earlier chunk
\* is settled, and the uploads in flight never outnumber maxConcurrent.
C4_ChunksAreBarriers ==
    (Scheduling /\ branch = "concurrent" /\ maxConcurrent(optionsArg) >= 1) =>
        /\ \A p, q \in DOMAIN tasks :
              (ChunkOf(p) < ChunkOf(q) /\ tasks[q].pc # "idle") => ~InFlight(tasks[p])
        /\ \A p, q \in DOMAIN tasks :
              (ChunkOf(p) < ChunkOf(q) /\ tasks[q].pc # "idle" /\ ~NameRaises(files[p]))
                   => tasks[p].pc = "done"
        /\ Cardinality(Uploading) <= maxConcurrent(optionsArg)

C4_Witness ==
    /\ Scheduling
    /\ branch = "concurrent"
    /\ maxConcurrent(optionsArg) = 2
    /\ i >= 2
    /\ Cardinality(Uploading) = 2

\* C5: in uploadMultipleFiles one failing item never aborts the batch: the
\* call is not rejected, also when reading an item's name raises, and the
\* returned array has a failure entry at the position of every failed item.
C5_ItemFailureNeverAbortsBatch ==
    call = "uploadMultipleFiles" =>
        /\ ret.state # "rejected"
        /\ (branch # "early" /\ ret.state = "resolved") =>
              /\ Len(results) = Len(files)
              /\ \A p \in DOMAIN files :
                    (tasks[p].out = "raised" \/ NameRaises(files[p])) => ~results[p].success

\* C6: no public operation raises to its caller.
C6_NoOperationRaises == ret.state # "rejected"

\* A size over the 5 GiB cap (sizes are in GiB).
ExceedsCap(source) == source.kind \in {"path", "file"} /\ source.size > 5

\* C7: uploadFile on a source over the 5 GiB cap issues neither the presign
\* POST nor a PUT, and what it returns is a failure envelope.
C7_OversizeNeverReachesNetwork ==
    \A t \in DOMAIN tasks :
        ExceedsCap(files[t]) =>
            /\ tasks[t].posts = 0
            /\ tasks[t].puts = 0
            /\ tasks[t].out = "returned" => ~tasks[t].env.success

Min(a, b) == IF a < b THEN a ELSE b

\* C8: uploadMultipleFiles runs in chunked concurrent mode whenever the
\* caller did not specify the concurrent option (no options at all, or an
\* options object without it), and with chunks of 3 whenever maxConcurrent
\* was not specified.
C8_ConcurrentIsDefault ==
    (call = "uploadMultipleFiles" /\ branch # "early") =>
        /\ optionsArg.concurrent = "absent" => branch = "concurrent"
        /\ (branch = "concurrent" /\ ~optionsArg.hasMax) =>
              Len(chunks[1]) = Min(3, Len(files))

Ceil(n, m) == (n + m - 1) \div m

\* The k-th of the consecutive chunks of size m of n sources.
ChunkAt(k, n, m) == [j \in 1..Min(m, n - m * (k - 1)) |-> m * (k - 1) + j]

\* C9: in concurrent mode with n sources and maxConcurrent m >= 1 the
\* batches launched are the consecutive chunks of size m, the last one
\* holding the n - m*(ceil(n/m)-1) sources that remain; when the call
\* returns there were ceil(n/m) of them and every source is in exactly one;
\* m = 2 over 5 sources gives the sizes 2, 2, 1.
C9_ConsecutiveChunks ==
    (Scheduling /\ branch = "concurrent" /\ maxConcurrent(optionsArg) >= 1) =>
        LET n == Len(files)
            m == maxConcurrent(optionsArg)
        IN  /\ Len(chunks) <= Ceil(n, m)
            /\ \A k \in DOMAIN chunks :
                  /\ chunks[k] = ChunkAt(k, n, m)
                  /\ Len(chunks[k]) = IF k < Ceil(n, m) THEN m ELSE n - m * (Ceil(n, m) - 1)
            /\ ret.state = "resolved" =>
                  /\ Len(chunks) = Ceil(n, m)
                  /\ \A p \in 1..n :
                        Cardinality({k \in DOMAIN chunks : p \in Range(chunks[k])}) = 1
                  /\ (n = 5 /\ m = 2) =>
                        [k \in DOMAIN chunks |-> Len(chunks[k])] = <<2, 2, 1>>

C9_Witness ==
    /\ Scheduling
    /\ branch = "concurrent"
    /\ maxConcurrent(optionsArg) = 2
    /\ Len(files) = 5
    /\ ret.state = "resolved"
    /\ [k \in DOMAIN chunks |-> Len(chunks[k])] = <<2, 2, 1>>

\* C10: in sequential mode at most one upload is in flight, and the upload
\* of a source has been started only if the upload of every source before it
\* is settled (returned an envelope or raised).
C10_SequentialOneAtATime ==
    (Scheduling /\ branch = "sequential") =>
        /\ Cardinality(Uploading) <= 1
        /\ \A p, q \in DOMAIN tasks :
              (p < q /\ tasks[q].pc # "idle") => tasks[p].pc = "done"
        /\ \A p \in DOMAIN tasks : tasks[p].pc # "idle" => p <= i + 1

C10_Witness ==
    /\ Scheduling
    /\ branch = "sequential"
    /\ Len(files) >= 3
    /\ i = 2
    /\ tasks[1].out = "raised"
    /\ tasks[2].out = "returned"
    /\ InFlight(tasks[3])

\* A message with some text in it.
Populated(message) == \E j \in DOMAIN message : message[j] # ""

\* C11: uploadMultipleFiles given an empty array or a value that is no array
\* returns an array of exactly one entry, a failure with a message, and has
\* started no upload and sent no request.
C11_NoFilesOneFailure ==
    (call = "uploadMultipleFiles" /\ (~filesIsArray \/ Len(files) = 0)) =>
        /\ branch = "early"
        /\ ret.state = "resolved"
        /\ Len(results) = 1
        /\ ~results[1].success
        /\ Populated(results[1].message)
        /\ tasks = <<>>
        /\ chunks = <<>>
        /\ svc.sent = 0

C11_Witness ==
    /\ call = "uploadMultipleFiles"
    /\ filesIsArray
    /\ files = <<>>
    /\ ret.state = "resolved"
    /\ Len(results) = 1

\* C12: deleteFile with an empty or missing object key returns a failure
\* envelope and sends no request, neither then nor later.
C12_EmptyKeyNoDelete ==
    (call = "deleteFile" /\ objectKey = <<>>) =>
        /\ ret.state = "resolved"
        /\ ~ret.env.success
        /\ Populated(ret.env.message)
        /\ svc.sent = 0
        /\ svc.pc = "none"

C12_Witness ==
    /\ call = "deleteFile"
    /\ objectKey = <<>>
    /\ ret = Resolved(Failure(<<"Object key diperlukan.">>))

\* A source of a type the host does not work with: a path outside Node.js, a
\* File object under Node.js, or a value that is neither.
Inconsistent(source) ==
    \/ source.kind = "path" /\ ~isNode
    \/ source.kind = "file" /\ isNode
    \/ source.kind \in {"other", "null"}

\* C13: uploadFile given a source of a type inconsistent with the host returns
\* a failure envelope at once and sends no request.
C13_InconsistentInputFailsLocally ==
    (call = "uploadFile" /\ Inconsistent(files[1])) =>
        /\ tasks[1].posts = 0
        /\ tasks[1].puts = 0
        /\ tasks[1].out = "returned"
        /\ ~tasks[1].env.success

\* C14: every failure envelope carries a message with text in it: the one a
\* public operation returns, the one each uploadFile invocation returns, and
\* every failure entry of a batch result.
C14_FailureHasMessage ==
    /\ (call \in {"uploadFile", "deleteFile", "getStorageInfo", "listFiles"}
            /\ ret.state = "resolved" /\ ~ret.env.success)
         => Populated(ret.env.message)
    /\ \A t \in DOMAIN tasks :
         (tasks[t].out = "returned" /\ ~tasks[t].env.success)
            => Populated(tasks[t].env.message)
    /\ \A t \in DOMAIN tasks :
         (tasks[t].presignResponse.kind \in {"http", "none"})
            => Populated(tasks[t].presignResult.message)
    /\ \A r \in DOMAIN results :
         ~results[r].success => Populated(results[r].message)

\* A service call answered by an HTTP error whose body names no reason.
C14_Witness ==
    /\ call = "listFiles"
    /\ ret.state = "resolved"
    /\ ret.env.status = 403
    /\ ret.env.message = <<"Terjadi kesalahan HTTP.">>

\* The two headers that identify the client to the service.
Identified(request) ==
    /\ request.headers.Authorization = <<"ApiKey ", apiKey>>
    /\ request.headers.Storage = <<"Storage ", storageName>>

\* C15: every request sent to the service (presign, delete, info, list)
\* carries Authorization: ApiKey <apiKey> and Storage: Storage <storageName>
\* with the values the client was built with; the PUT to the storage backend
\* carries neither header.
C15_ServiceHeadersOnlyOnServiceRequests ==
    /\ svc.sent = 1 => Identified(svc.request)
    /\ \A t \in DOMAIN tasks :
         /\ tasks[t].posts = 1 => Identified(tasks[t].post)
         /\ tasks[t].puts = 1 =>
               /\ tasks[t].put.method = "PUT"
               /\ tasks[t].put.headers.Authorization = <<>>
               /\ tasks[t].put.headers.Storage = <<>>

\* An upload that has sent both its presign POST and its PUT.
C15_Witness ==
    /\ call = "uploadFile"
    /\ tasks[1].puts = 1
    /\ tasks[1].post.method = "POST"
    /\ tasks[1].post.headers.Storage = <<"Storage ", storageName>>
    /\ tasks[1].put.headers = [NoHeaders EXCEPT !.ContentType = "application/octet-stream"]

\* What the transport made of a request that got no response.
Unanswered(envelope, response) ==
    /\ ~envelope.success
    /\ envelope.status # 0
    /\ \E j \in DOMAIN envelope.message : envelope.message[j] = response.cause

\* C16: when a service request gets no response at all, the transport returns
\* a failure envelope with success false, a status, and a message that embeds
\* the cause.
C16_NoResponseHasStatus ==
    /\ svc.response.kind = "none" =>
          ret.state = "resolved" /\ Unanswered(ret.env, svc.response)
    /\ \A t \in DOMAIN tasks :
          tasks[t].presignResponse.kind = "none" =>
              Unanswered(tasks[t].presignResult, tasks[t].presignResponse)

\* C17: after uploadFile returned success with key K, a following
\* deleteFile(K) sends exactly one DELETE to /cdn/delete-object/ whose payload
\* is {key: K}, K being the key the presign call issued for that upload, and
\* returns success when the service accepts it.
C17_UploadThenDelete ==
    (call = "deleteFile" /\ tasks # <<>>) =>
        /\ tasks[1].env.success
        /\ objectKey = tasks[1].env.data.key
        /\ objectKey = tasks[1].presignResponse.data.key
        /\ objectKey # <<>>
        /\ svc.sent = 1
        /\ svc.request.method = "DELETE"
        /\ svc.request.url = <<"/cdn/delete-object/">>
        /\ svc.request.data = [key |-> objectKey]
        /\ svc.pc = "sent" => ret.state = "pending"
        /\ svc.response.kind = "ok" => ret.state = "resolved" /\ ret.env.success

C17_Witness ==
    /\ call = "deleteFile"
    /\ tasks # <<>>
    /\ svc.request.data.key = <<"objects/", "f1">>
    /\ svc.response.kind = "ok"
    /\ ret.state = "resolved"
    /\ ret.env.success

\* One uploadFile invocation sends at most one presign POST and at most one
\* PUT, the PUT only after its own presign call succeeded and to the URL that
\* call returned.
OwnUrlOnly(task) ==
    /\ task.posts <= 1
    /\ task.puts <= 1
    /\ task.puts = 1 =>
          /\ task.posts = 1
          /\ task.presignResponse.kind = "ok"
          /\ task.put.url = task.presignResponse.data.url
          /\ task.putUrl = task.put.url

\* The URL the presign call of an invocation obtained, {} if it obtained none.
Obtained(task) ==
    IF task.presignResponse.kind = "ok" THEN {task.presignResponse.data.url} ELSE {}

\* C18: no retry and no reuse of an upload URL.  Each uploadFile invocation
\* sends at most one presign POST and one PUT, the PUT after its own presign
\* succeeded and to exactly that URL; an uploadFile call repeated for the
\* same source (also after a failed PUT) asks for a new URL, and no PUT goes
\* to a URL obtained by an earlier invocation or by a sibling of the batch.
C18_NoRetryNoUrlReuse ==
    /\ \A t \in DOMAIN tasks : OwnUrlOnly(tasks[t])
    /\ \A k \in DOMAIN previous : OwnUrlOnly(previous[k])
    /\ \A t, u \in DOMAIN tasks :
          (t # u /\ tasks[t].puts = 1) => tasks[t].put.url \notin Obtained(tasks[u])
    /\ \A t \in DOMAIN tasks : \A k \in DOMAIN previous :
          tasks[t].puts = 1 => tasks[t].put.url \notin Obtained(previous[k])

\* The second call for a source whose first call failed at the PUT.
C18_Witness ==
    /\ call = "uploadFile"
    /\ previous # <<>>
    /\ PutFailed(previous[1])
    /\ tasks[1].puts = 1
    /\ tasks[1].put.url # previous[1].put.url
    /\ tasks[1].out = "returned"
    /\ tasks[1].env.success

\* C19: the axios transport and the fetch fallback turn the same outcome of
\* the same request into the same envelope: a success response with or
\* without a JSON body, an error response with message, with detail or with
\* neither, and no response.
C19_TransportsAgree ==
    /\ svc.response.kind # "" =>
          _requestToServiceBrowser(svc.response) = _requestToService(svc.response)
    /\ \A t \in DOMAIN tasks :
          tasks[t].presignResponse.kind # "" =>
              _requestToServiceBrowser(tasks[t].presignResponse)
                  = _requestToService(tasks[t].presignResponse)

\* C20: uploadMultipleFiles called with a non-empty array of sources, in
\* either mode and with any integer maxConcurrent (positive, zero or
\* negative), eventually returns its result array, given that every upload
\* settles; and no source is uploaded more than once.
C20_BatchTerminates ==
    /\ (Scheduling /\ \A p \in DOMAIN files : files[p].kind \in {"path", "file"})
          ~> (ret.state = "resolved")
    /\ [](Scheduling => \A t \in DOMAIN tasks : tasks[t].posts <= 1 /\ tasks[t].puts <= 1)

====
